---- MODULE Spec2Model ----
(***************************************************************************)
(* Model of esc_unlocker.py: a Tk front end that launches OpenOCD in a     *)
(* worker thread until it exits with code 0.                               *)
(*                                                                         *)
(* The main thread runs the Tk callbacks (start_openocd, stop_openocd,     *)
(* quit, the three option menus, closing the window).  Every               *)
(* threading.Thread created by start_openocd runs run_openocd; a thread    *)
(* is modelled by its position pc[w] and its local variables.  The child   *)
(* process of a thread is an environment process: it runs, then closes its *)
(* two output streams, and has exited or not when the worker polls it.     *)
(***************************************************************************)
EXTENDS Integers, Sequences, FiniteSets, Bags, TLC

(* ---------------------------- bounds ----------------------------------- *)

\* number of threading.Thread objects start_openocd may create
MaxThreads == 2
\* number of subprocess.Popen calls that create a process
MaxLaunches == 1
\* number of user actions on the window (buttons, menus, closing it)
MaxClicks == 2

Workers == 1..MaxThreads

(* ------------------------ program constants ---------------------------- *)

\* the option menus offer these values (a subset of MCU_LIST, PIN_LIST)
MCU_LIST == <<"F051", "G071">>
PIN_LIST == <<"PA2", "PB4">>
MODE_LIST == <<"Unlock", "Lock">>

SeqRange(s) == {s[i] : i \in 1..Len(s)}

\* the marker string "Cortex-M", one element per character
Marker == <<"C", "o", "r", "t", "e", "x", "-", "M">>

\* texts a process may write to one of its streams
Texts ==
  { <<>>,
    <<"I", " ">> \o Marker \o <<"0">>,
    <<"C", "o", "r", "t", "e", "x", "-">> }

\* exit statuses of the external tool
ExitCodes == {0, 1}

\* tones as (frequency, tenths of a second)
SearchingTone == <<300, 1>>
FoundTone == <<880, 1>>
SuccessTones == << <<600, 1>>, <<800, 1>>, <<1000, 1>> >>

(* --------------------------- pure functions ---------------------------- *)

\* str.find: the lowest index (from 0) at which sub occurs in s, else -1
Find(s, sub) ==
  LET hits == {i \in 0..(Len(s) - Len(sub)) :
                 \A k \in 1..Len(sub) : s[i + k] = sub[k]}
  IN  IF hits = {} THEN -1
      ELSE CHOOSE i \in hits : \A j \in hits : i <= j

\* the truth value of find() itself ("if outerr.find(...):"): -1 is true
DetectedTruthy(errtext) == Find(errtext, Marker) /= 0

\* the test of line 143 on the text the worker decoded
Detected(errtext) == Find(errtext, Marker) /= -1

\* get_resource_path: the path below the base directory
get_resource_path(relative_path) == <<"base">> \o relative_path

\* op of lines 102-105
OpOf(mode) == IF mode = "Lock" THEN "lock" ELSE "unlock"

\* config_file of lines 106-108
ConfigFile(m, o) == get_resource_path(<<"MCU", m, "openocd-" \o o \o ".cfg">>)

\* bootloader of lines 109-110
Bootloader(m, p) ==
  get_resource_path(<<"bootloaders", "AM32_" \o m \o "_BOOTLOADER_" \o p \o "_V12.bin">>)

(* ------------------------------ state ---------------------------------- *)

VARIABLES
  running,        \* the global flag of lines 98, 169, 174, 227
  mcu_var,        \* tk.StringVar of the MCU menu
  pin_var,        \* tk.StringVar of the pin menu
  mode_var,       \* tk.StringVar of the mode menu
  gui,            \* "up": mainloop runs; "quit": quit() ran; "closed": window destroyed
  led,            \* fill colour of the status LED
  output_text,    \* the texts in the ScrolledText, as a bag (their order is not modelled)
  log,            \* the records of esc_unlocker.log, as a bag (their order is not modelled)
  pending_tones,  \* the global list of line 24
  pc,             \* position of each run_openocd thread
  mcu_type,       \* locals of run_openocd, one per thread
  pin,
  op,
  config_file,
  bootloader,
  process,
  output,
  outerr,
  retcode,        \* <<>> is None, <<c>> is the exit status c
  marked,         \* what this iteration showed at lines 143-150
  sel_at_start,   \* history: the selections when start_openocd created the thread
  stop_since_start, \* history: stop_openocd ran and start_openocd has not run since
  exit0,          \* history: some launched process exits with code 0
  green_since_start, \* history: line 157 set the LED and start_openocd has created no thread since
  launches,       \* number of processes created so far
  clicks,         \* number of user actions so far
  played,         \* the tones handed to play_tone so far, in order
  playing         \* the main thread is inside the while loop of play_tones

globals == <<running, mcu_var, pin_var, mode_var, gui, led, output_text, log,
             pending_tones>>
setup == <<mcu_type, pin, op, config_file, bootloader>>
iter == <<output, outerr, retcode, marked>>
hist == <<sel_at_start, stop_since_start, exit0, green_since_start, launches, clicks>>
player == <<played, playing>>
vars == <<globals, pc, setup, process, iter, hist, player>>

NoProcess ==
  [state |-> "none", bootloader |-> <<>>, config_file |-> <<>>, code |-> 0]

None == <<>>

\* positions inside the body of the while loop of lines 115-160
BodyPcs == {"popen", "read_out", "read_err", "detect", "poll", "success",
            "green", "clear"}
\* positions at which the thread is in the loop (its test included)
LoopPcs == BodyPcs \cup {"loop"}
\* positions reached only after lines 154-156 ran in this iteration
ReportedPcs == {"green", "clear"}

Init ==
  /\ running = FALSE
  /\ mcu_var = MCU_LIST[1]
  /\ pin_var = PIN_LIST[1]
  /\ mode_var = MODE_LIST[1]
  /\ gui = "up"
  /\ led = "gray"
  /\ output_text = EmptyBag
  /\ log = EmptyBag
  /\ pending_tones = <<>>
  /\ pc = [w \in Workers |-> "idle"]
  /\ mcu_type = [w \in Workers |-> ""]
  /\ pin = [w \in Workers |-> ""]
  /\ op = [w \in Workers |-> ""]
  /\ config_file = [w \in Workers |-> <<>>]
  /\ bootloader = [w \in Workers |-> <<>>]
  /\ process = [w \in Workers |-> NoProcess]
  /\ output = [w \in Workers |-> <<>>]
  /\ outerr = [w \in Workers |-> <<>>]
  /\ retcode = [w \in Workers |-> None]
  /\ marked = [w \in Workers |-> "none"]
  /\ sel_at_start = [w \in Workers |-> <<>>]
  /\ stop_since_start = FALSE
  /\ exit0 = FALSE
  /\ green_since_start = FALSE
  /\ launches = 0
  /\ clicks = 0
  /\ played = <<>>
  /\ playing = FALSE

\* log_message (lines 58-68) appends one record to the log file
log_message(msg) == log' = log (+) SetToBag({msg})

\* output_text.insert(tk.END, text), lines 135 and 140
insert(text) == output_text' = output_text (+) SetToBag({text})

(* ------------------------ main thread: callbacks ----------------------- *)

\* a user action is handled while the window is up and the main thread is
\* not inside another callback
Click ==
  /\ gui = "up"
  /\ ~playing
  /\ clicks < MaxClicks
  /\ clicks' = clicks + 1

\* a start_openocd that does not look at the flag
NotRunningUntested(flag) == TRUE

\* the test of line 163
NotRunning(flag) == ~flag

\* start_openocd, lines 162-166
start_openocd ==
  /\ Click
  /\ NotRunning(running) => \E w \in Workers : pc[w] = "idle"
  /\ stop_since_start' = FALSE
  /\ IF NotRunning(running)
       THEN LET w == CHOOSE v \in Workers :
                       pc[v] = "idle" /\ \A u \in Workers : pc[u] = "idle" => v <= u
            IN /\ output_text' = EmptyBag
               /\ pc' = [pc EXCEPT ![w] = "start"]
               /\ sel_at_start' = [sel_at_start EXCEPT ![w] = <<mcu_var, pin_var, mode_var>>]
               /\ green_since_start' = FALSE
       ELSE UNCHANGED <<output_text, pc, sel_at_start, green_since_start>>
  /\ UNCHANGED <<running, mcu_var, pin_var, mode_var, gui, led, log, pending_tones,
                 setup, process, iter, exit0, launches, player>>

\* stop_openocd, lines 168-171
stop_openocd ==
  /\ Click
  /\ running' = FALSE
  /\ log_message(<<"stopping">>)
  /\ stop_since_start' = TRUE
  /\ UNCHANGED <<mcu_var, pin_var, mode_var, gui, led, output_text, pending_tones,
                 pc, setup, process, iter, sel_at_start, exit0,
                 green_since_start, launches, player>>

\* quit, lines 173-176: SystemExit leaves mainloop; the interpreter then waits
\* for the worker threads
quit ==
  /\ Click
  /\ running' = FALSE
  /\ gui' = "quit"
  /\ UNCHANGED <<mcu_var, pin_var, mode_var, led, output_text, log, pending_tones,
                 pc, setup, process, iter, sel_at_start, stop_since_start, exit0,
                 green_since_start,
                 launches, player>>

\* the window is closed: mainloop (line 239) returns and the widgets are gone
close_window ==
  /\ Click
  /\ gui' = "closed"
  /\ UNCHANGED <<running, mcu_var, pin_var, mode_var, led, output_text, log,
                 pending_tones, pc, setup, process, iter, sel_at_start,
                 stop_since_start, exit0,
                 green_since_start, launches, player>>

\* the option menus of lines 193, 200, 207 set their variable
select_mcu ==
  /\ Click
  /\ \E m \in SeqRange(MCU_LIST) : m /= mcu_var /\ mcu_var' = m
  /\ UNCHANGED <<running, pin_var, mode_var, gui, led, output_text, log,
                 pending_tones, pc, setup, process, iter, sel_at_start,
                 stop_since_start, exit0,
                 green_since_start, launches, player>>

select_pin ==
  /\ Click
  /\ \E p \in SeqRange(PIN_LIST) : p /= pin_var /\ pin_var' = p
  /\ UNCHANGED <<running, mcu_var, mode_var, gui, led, output_text, log,
                 pending_tones, pc, setup, process, iter, sel_at_start,
                 stop_since_start, exit0,
                 green_since_start, launches, player>>

select_mode ==
  /\ Click
  /\ \E m \in SeqRange(MODE_LIST) : m /= mode_var /\ mode_var' = m
  /\ UNCHANGED <<running, mcu_var, pin_var, gui, led, output_text, log,
                 pending_tones, pc, setup, process, iter, sel_at_start,
                 stop_since_start, exit0,
                 green_since_start, launches, player>>

(* --------------------- worker thread: run_openocd ---------------------- *)

Goto(w, p) == pc' = [pc EXCEPT ![w] = p]

\* the iteration is over: control returns to the test of line 115.  process,
\* output, outerr and retcode are assigned again before they are next read,
\* so their old values are dropped here
EndIter(w) ==
  /\ Goto(w, "loop")
  /\ process' = [process EXCEPT ![w] = NoProcess]
  /\ output' = [output EXCEPT ![w] = <<>>]
  /\ outerr' = [outerr EXCEPT ![w] = <<>>]
  /\ retcode' = [retcode EXCEPT ![w] = None]
  /\ marked' = [marked EXCEPT ![w] = "none"]

\* an exception inside the try block: line 159 catches it, line 160 prints it
\* and the iteration is over
Except(w) == EndIter(w)

\* line 99
SetRunning(w) ==
  /\ pc[w] = "start"
  /\ running' = TRUE
  /\ Goto(w, "get_mcu")
  /\ UNCHANGED <<mcu_var, pin_var, mode_var, gui, led, output_text, log,
                 pending_tones, setup, process, iter, hist, player>>

\* the locals of a thread that has ended are gone
Forget(w) ==
  /\ mcu_type' = [mcu_type EXCEPT ![w] = ""]
  /\ pin' = [pin EXCEPT ![w] = ""]
  /\ op' = [op EXCEPT ![w] = ""]
  /\ config_file' = [config_file EXCEPT ![w] = <<>>]
  /\ bootloader' = [bootloader EXCEPT ![w] = <<>>]
  /\ process' = [process EXCEPT ![w] = NoProcess]
  /\ output' = [output EXCEPT ![w] = <<>>]
  /\ outerr' = [outerr EXCEPT ![w] = <<>>]
  /\ retcode' = [retcode EXCEPT ![w] = None]
  /\ marked' = [marked EXCEPT ![w] = "none"]
  /\ sel_at_start' = [sel_at_start EXCEPT ![w] = <<>>]

\* a widget call of the worker fails once the main loop is gone; outside the
\* try block (lines 100-102) the exception ends the thread
Dies(w) ==
  /\ gui /= "up"
  /\ Goto(w, "dead")
  /\ Forget(w)
  /\ UNCHANGED <<globals, stop_since_start, exit0,
                 green_since_start, launches, clicks, player>>

\* line 100
GetMcu(w) ==
  /\ pc[w] = "get_mcu"
  /\ \/ Dies(w)
     \/ /\ gui = "up"
        /\ mcu_type' = [mcu_type EXCEPT ![w] = mcu_var]
        /\ Goto(w, "get_pin")
        /\ UNCHANGED <<globals, pin, op, config_file, bootloader, process, iter, hist,
                       player>>

\* line 101
GetPin(w) ==
  /\ pc[w] = "get_pin"
  /\ \/ Dies(w)
     \/ /\ gui = "up"
        /\ pin' = [pin EXCEPT ![w] = pin_var]
        /\ Goto(w, "get_mode")
        /\ UNCHANGED <<globals, mcu_type, op, config_file, bootloader, process, iter,
                       hist, player>>

\* lines 102-114
GetMode(w) ==
  /\ pc[w] = "get_mode"
  /\ \/ Dies(w)
     \/ /\ gui = "up"
        /\ LET o == OpOf(mode_var)
           IN /\ op' = [op EXCEPT ![w] = o]
              /\ config_file' = [config_file EXCEPT ![w] = ConfigFile(mcu_type[w], o)]
              /\ bootloader' = [bootloader EXCEPT ![w] = Bootloader(mcu_type[w], pin[w])]
              /\ log_message(<<"Starting", mcu_type[w], pin[w], o>>)
        /\ Goto(w, "loop")
        /\ UNCHANGED <<running, mcu_var, pin_var, mode_var, gui, led, output_text,
                       pending_tones, mcu_type, pin, process, iter, hist, player>>

\* a loop that tests "while not running"
ContinueNegated(flag) == ~flag

\* the test of line 115
Continue(flag) == flag

\* line 115
LoopTest(w) ==
  /\ pc[w] = "loop"
  /\ IF Continue(running)
       THEN /\ Goto(w, "popen")
            /\ UNCHANGED <<setup, process, iter, sel_at_start>>
       ELSE /\ Goto(w, "done")
            /\ Forget(w)
  /\ UNCHANGED <<globals, stop_since_start, exit0,
                 green_since_start, launches, clicks, player>>

\* a command line built from the menus at every launch
CommandFromMenus(w) ==
  [bootloader |-> Bootloader(mcu_var, pin_var),
   config_file |-> ConfigFile(mcu_var, OpOf(mode_var))]

\* the arguments of the Popen call, lines 126-128
Command(w) == [bootloader |-> bootloader[w], config_file |-> config_file[w]]

\* lines 118-131: Popen creates the child or raises (OSError); the model
\* creates at most n processes
Launch(w, n) ==
  /\ pc[w] = "popen"
  /\ \/ /\ Except(w)
        /\ UNCHANGED <<globals, setup, hist, player>>
     \/ /\ launches < n
        /\ launches' = launches + 1
        /\ process' = [process EXCEPT ![w] =
                         [state |-> "running",
                          bootloader |-> Command(w).bootloader,
                          config_file |-> Command(w).config_file,
                          code |-> 0]]
        /\ Goto(w, "read_out")
        /\ UNCHANGED <<globals, setup, iter, sel_at_start, stop_since_start, exit0,
                       green_since_start, clicks, player>>

Popen(w) == Launch(w, MaxLaunches)

\* the same call in runs that have room for one more process: a process can
\* be launched after another has succeeded
PopenAgain(w) == Launch(w, MaxLaunches + 1)

\* a widget call made from the worker raises when the main loop is gone
WidgetRaises == gui /= "up"

\* lines 133-137: read() returns at end-of-file with the text the child wrote
\* to stdout; decode() may raise
ReadOut(w) ==
  /\ pc[w] = "read_out"
  /\ process[w].state = "closed"
  /\ \/ /\ Except(w)
        /\ UNCHANGED <<globals, setup, hist, player>>
     \/ \E text \in Texts :
          /\ IF text /= <<>> /\ WidgetRaises
               THEN /\ Except(w)
                    /\ UNCHANGED <<output_text, log>>
               ELSE /\ output' = [output EXCEPT ![w] = text]
                    /\ IF text = <<>> THEN output_text' = output_text ELSE insert(text)
                    /\ IF text = <<>> THEN log' = log ELSE log_message(text)
                    /\ Goto(w, "read_err")
                    /\ UNCHANGED <<process, outerr, retcode, marked>>
          /\ UNCHANGED <<running, mcu_var, pin_var, mode_var, gui, led, pending_tones,
                         setup, hist, player>>

\* lines 138-142: the same for stderr
ReadErr(w) ==
  /\ pc[w] = "read_err"
  /\ \/ /\ Except(w)
        /\ UNCHANGED <<globals, setup, hist, player>>
     \/ \E text \in Texts :
          /\ IF text /= <<>> /\ WidgetRaises
               THEN /\ Except(w)
                    /\ UNCHANGED <<output_text, log>>
               ELSE /\ outerr' = [outerr EXCEPT ![w] = text]
                    /\ IF text = <<>> THEN output_text' = output_text ELSE insert(text)
                    /\ IF text = <<>> THEN log' = log ELSE log_message(text)
                    /\ Goto(w, "detect")
                    /\ UNCHANGED <<process, output, retcode, marked>>
          /\ UNCHANGED <<running, mcu_var, pin_var, mode_var, gui, led, pending_tones,
                         setup, hist, player>>

\* a search of the text of stdout instead
SearchedStdout(w) == output[w]

\* the text line 143 searches for the marker
Searched(w) == outerr[w]

\* lines 143-150: play_found or play_searching, then update_status_led
Detect(w) ==
  /\ pc[w] = "detect"
  /\ LET found == Detected(Searched(w))
     IN /\ pending_tones' =
             Append(pending_tones, IF found THEN FoundTone ELSE SearchingTone)
        /\ IF WidgetRaises
             THEN /\ Except(w)
                  /\ UNCHANGED led
             ELSE /\ led' = IF found THEN "orange" ELSE "red"
                  /\ marked' = [marked EXCEPT ![w] = IF found THEN "found" ELSE "searching"]
                  /\ Goto(w, "poll")
                  \* output is not read after line 137
                  /\ output' = [output EXCEPT ![w] = <<>>]
                  /\ UNCHANGED <<process, outerr, retcode>>
  /\ UNCHANGED <<running, mcu_var, pin_var, mode_var, gui, output_text, log,
                 setup, hist, player>>

\* Popen.poll(): the exit status if the child can be reaped now, else None
poll(p) == IF p.state = "exited" THEN <<p.code>> ELSE None

\* a test that takes any exit status for success ("if retcode is not None:")
SucceededAnyStatus(rc) == rc /= None

\* the test of lines 152-153
Succeeded(rc) == rc /= None /\ rc[1] = 0

\* the child as waitpid may find it: a child that has closed its streams has
\* exited by the time of the call, or has not yet
AtPoll(p) == IF p.state = "closed" THEN {p, [p EXCEPT !.state = "exited"]} ELSE {p}

\* lines 151-153
Poll(w) ==
  /\ pc[w] = "poll"
  /\ \E p \in AtPoll(process[w]) :
       LET rc == poll(p)
       IN IF Succeeded(rc)
            THEN /\ retcode' = [retcode EXCEPT ![w] = rc]
                 /\ process' = [process EXCEPT ![w] = p]
                 /\ Goto(w, "success")
                 /\ UNCHANGED <<output, outerr, marked>>
            ELSE EndIter(w)
  /\ UNCHANGED <<globals, setup, hist, player>>

\* lines 154-156: log_message("Success"), print, play_success
Success(w) ==
  /\ pc[w] = "success"
  /\ log_message(<<"Success">>)
  /\ pending_tones' = pending_tones \o SuccessTones
  /\ Goto(w, "green")
  /\ UNCHANGED <<running, mcu_var, pin_var, mode_var, gui, led, output_text,
                 setup, process, iter, hist, player>>

\* line 157
Green(w) ==
  /\ pc[w] = "green"
  /\ IF WidgetRaises
       THEN /\ Except(w)
            /\ UNCHANGED <<led, green_since_start>>
       ELSE /\ led' = "green"
            /\ green_since_start' = TRUE
            /\ Goto(w, "clear")
            /\ UNCHANGED <<process, iter>>
  /\ UNCHANGED <<running, mcu_var, pin_var, mode_var, gui, output_text, log,
                 pending_tones, setup, sel_at_start, stop_since_start, exit0, launches,
                 clicks, player>>

\* line 158
Clear(w) ==
  /\ pc[w] = "clear"
  /\ running' = FALSE
  /\ EndIter(w)
  /\ UNCHANGED <<mcu_var, pin_var, mode_var, gui, led, output_text, log,
                 pending_tones, setup, hist, player>>

(* -------------------- main thread: the tone player --------------------- *)

\* list.pop(): the last element of the list, and the list without it
Popped(list) == list[Len(list)]
AfterPop(list) == SubSeq(list, 1, Len(list) - 1)

\* lines 231-233, one pass of the while loop of play_tones: a tone is taken
\* from pending_tones and played; play_tone returns when the tone is over
PlayTone ==
  /\ gui = "up"
  /\ Len(pending_tones) > 0
  /\ played' = Append(played, Popped(pending_tones))
  /\ pending_tones' = AfterPop(pending_tones)
  /\ playing' = TRUE
  /\ UNCHANGED <<running, mcu_var, pin_var, mode_var, gui, led, output_text, log,
                 pc, setup, process, iter, hist>>

\* lines 231 and 234: the list is empty, play_tones schedules itself again and
\* returns to the main loop
PlayTonesReturns ==
  /\ playing
  /\ Len(pending_tones) = 0
  /\ playing' = FALSE
  /\ UNCHANGED <<globals, pc, setup, process, iter, hist, played>>

(* ------------------------- the child process --------------------------- *)

\* the child finishes its work: it closes stdout and stderr and is about to
\* exit with some status
ProcClose(w) ==
  /\ process[w].state = "running"
  /\ \E c \in ExitCodes :
       /\ process' = [process EXCEPT ![w] = [@ EXCEPT !.state = "closed", !.code = c]]
       /\ exit0' = (exit0 \/ c = 0)
  /\ UNCHANGED <<globals, pc, setup, iter, sel_at_start, stop_since_start,
                 green_since_start, launches, clicks, player>>

(* --------------------------- specification ----------------------------- *)

Next ==
  \/ start_openocd
  \/ stop_openocd
  \/ quit
  \/ close_window
  \/ select_mcu
  \/ select_pin
  \/ select_mode
  \/ \E w \in Workers : SetRunning(w)
  \/ \E w \in Workers : GetMcu(w)
  \/ \E w \in Workers : GetPin(w)
  \/ \E w \in Workers : GetMode(w)
  \/ \E w \in Workers : LoopTest(w)
  \/ \E w \in Workers : Popen(w)
  \/ \E w \in Workers : ReadOut(w)
  \/ \E w \in Workers : ReadErr(w)
  \/ \E w \in Workers : Detect(w)
  \/ \E w \in Workers : Poll(w)
  \/ \E w \in Workers : Success(w)
  \/ \E w \in Workers : Green(w)
  \/ \E w \in Workers : Clear(w)
  \/ \E w \in Workers : ProcClose(w)

Spec == Init /\ [][Next]_vars

\* the same program with room for one more process
NextRelaunch ==
  \/ start_openocd
  \/ stop_openocd
  \/ quit
  \/ close_window
  \/ select_mcu
  \/ select_pin
  \/ select_mode
  \/ \E w \in Workers : SetRunning(w)
  \/ \E w \in Workers : GetMcu(w)
  \/ \E w \in Workers : GetPin(w)
  \/ \E w \in Workers : GetMode(w)
  \/ \E w \in Workers : LoopTest(w)
  \/ \E w \in Workers : PopenAgain(w)
  \/ \E w \in Workers : ReadOut(w)
  \/ \E w \in Workers : ReadErr(w)
  \/ \E w \in Workers : Detect(w)
  \/ \E w \in Workers : Poll(w)
  \/ \E w \in Workers : Success(w)
  \/ \E w \in Workers : Green(w)
  \/ \E w \in Workers : Clear(w)
  \/ \E w \in Workers : ProcClose(w)

SpecRelaunch == Init /\ [][NextRelaunch]_vars

\* the program with the play_tones callback of lines 229-236
NextTones ==
  \/ start_openocd
  \/ stop_openocd
  \/ quit
  \/ close_window
  \/ select_mcu
  \/ select_pin
  \/ select_mode
  \/ PlayTone
  \/ PlayTonesReturns
  \/ \E w \in Workers : SetRunning(w)
  \/ \E w \in Workers : GetMcu(w)
  \/ \E w \in Workers : GetPin(w)
  \/ \E w \in Workers : GetMode(w)
  \/ \E w \in Workers : LoopTest(w)
  \/ \E w \in Workers : Popen(w)
  \/ \E w \in Workers : ReadOut(w)
  \/ \E w \in Workers : ReadErr(w)
  \/ \E w \in Workers : Detect(w)
  \/ \E w \in Workers : Poll(w)
  \/ \E w \in Workers : Success(w)
  \/ \E w \in Workers : Green(w)
  \/ \E w \in Workers : Clear(w)
  \/ \E w \in Workers : ProcClose(w)

SpecTones == Init /\ [][NextTones]_vars

(* ------------------------------ properties ----------------------------- *)

\* what a step does to the things a success is reported with
SuccessLogged == CopiesIn(<<"Success">>, log') > CopiesIn(<<"Success">>, log)
SuccessTonesQueued == pending_tones' = pending_tones \o SuccessTones
LedTurnsGreen == led' = "green" /\ led /= "green"
\* the flag is cleared, and neither by stop_openocd (which logs) nor by quit
WorkerClearsRunning == running /\ ~running' /\ log' = log /\ gui' = gui

\* the step of thread w raises an exception that line 159 catches: control
\* returns to the loop test from a position whose next statement is another
ExceptionStep(w) ==
  /\ pc[w] \in {"popen", "read_out", "read_err", "detect", "green"}
  /\ pc'[w] = "loop"

\* C1 as claimed: the worker loop terminates only in executions where some
\* launched process exits with code 0 (the part of "if and only if" that a
\* finite run can refute).
C1_EndsOnlyOnExitZero ==
  \A w \in Workers : pc[w] = "done" => exit0

\* C1 as amended: the worker loop terminates only after a worker has reported
\* a success (exit code 0 observed), or after stop_openocd or quit was called.
C1_EndsOnlyAfterSuccessOrStop ==
  \A w \in Workers :
    pc[w] = "done" =>
      \/ BagIn(<<"Success">>, log)
      \/ BagIn(<<"stopping">>, log)
      \/ gui = "quit"

\* a loop that ended by a success, with no Stop and no Quit
C1_Witness ==
  \E w \in Workers :
    /\ pc[w] = "done"
    /\ BagIn(<<"Success">>, log)
    /\ ~BagIn(<<"stopping">>, log)
    /\ gui = "up"

\* C2: once stop_openocd was called, and start_openocd not again, a worker
\* that next evaluates the loop test leaves the loop (so it launches no further
\* process).
C2_StopEndsLoop ==
  [][\A w \in Workers :
       (stop_since_start /\ pc[w] = "loop" /\ pc'[w] /= "loop") => pc'[w] = "done"]_vars

\* C3: a step logs "Success", queues the success tones, turns the LED green or
\* clears running from the worker only if it is a step of a worker whose
\* retcode in this iteration is 0, the exit code of the process it launched in
\* this iteration.
C3_SuccessOnlyOnExitZero ==
  [][(SuccessLogged \/ SuccessTonesQueued \/ LedTurnsGreen \/ WorkerClearsRunning) =>
       \E w \in Workers :
         /\ pc[w] \in {"success", "green", "clear"}
         /\ pc'[w] /= pc[w]
         /\ retcode[w] = <<0>>
         /\ process[w].state = "exited"
         /\ process[w].code = 0]_vars

\* a worker that reported a success and is about to clear running
C3_Witness ==
  \E w \in Workers :
    /\ pc[w] = "clear"
    /\ led = "green"
    /\ retcode[w] = <<0>>
    /\ BagIn(<<"Success">>, log)

\* C4: when the process of an iteration exits with code 0 and the iteration
\* reaches line 151, the iteration reports success.
C4_ExitZeroReportsSuccess ==
  [][\A w \in Workers :
       (/\ pc[w] = "poll"
        /\ process[w].state = "closed"
        /\ process[w].code = 0
        /\ pc'[w] /= "poll") => pc'[w] = "success"]_vars

\* C5 as claimed: a worker that reported a success (LED green, about to clear
\* running) detected the target in that iteration.
C5_SuccessImpliesDetected ==
  \A w \in Workers : pc[w] = "clear" => marked[w] = "found"

\* C5 as amended: a worker that reports a success has, in that iteration,
\* marked the target as detected if "Cortex-M" occurs in the text of stderr and
\* as searching otherwise; a success does not need a detection.
C5_SuccessAfterEitherMark ==
  \A w \in Workers :
    pc[w] \in {"success", "green", "clear"} =>
      /\ marked[w] \in {"found", "searching"}
      /\ (marked[w] = "found") <=> (Find(outerr[w], Marker) /= -1)

\* a success reported in an iteration that did not detect the target
C5_Witness ==
  \E w \in Workers :
    /\ pc[w] = "clear"
    /\ led = "green"
    /\ marked[w] = "searching"

C7_ExceptionReportsNoSuccess ==
  [][\A w \in Workers :
       ExceptionStep(w) => (running' = running /\ pc[w] \notin ReportedPcs)]_vars

\* C8 as claimed: every process is launched with the configuration file and
\* the bootloader of the selections made when start_openocd created the thread.
C8_CommandFromSelectionAtStart ==
  \A w \in Workers :
    process[w].state /= "none" =>
      /\ process[w].config_file =
           ConfigFile(sel_at_start[w][1], OpOf(sel_at_start[w][3]))
      /\ process[w].bootloader = Bootloader(sel_at_start[w][1], sel_at_start[w][2])

\* C8 as amended: the command line is built from the three selections as the
\* worker reads them at lines 100-102: op is "lock" exactly when the mode read
\* is "Lock"; from then on the thread's MCU, pin and op do not change, whatever
\* is selected in the menus, and every process it launches gets the
\* configuration file of (MCU, op) and the bootloader of (MCU, pin).
C8_CommandFromSelectionsRead ==
  [][\A w \in Workers :
       /\ (pc[w] = "get_mode" /\ pc'[w] = "loop") =>
            ((op'[w] = "lock") <=> (mode_var = "Lock")) /\ op'[w] \in {"lock", "unlock"}
       /\ (pc[w] \in LoopPcs /\ pc'[w] \in LoopPcs) =>
            /\ <<mcu_type'[w], pin'[w], op'[w]>> = <<mcu_type[w], pin[w], op[w]>>
            /\ process'[w].state /= "none" =>
                 /\ process'[w].config_file = ConfigFile(mcu_type[w], op[w])
                 /\ process'[w].bootloader = Bootloader(mcu_type[w], pin[w])]_vars

\* a process launched with the MCU read at line 100 after the menu has been
\* changed to another MCU
C8_Witness ==
  \E w \in Workers :
    /\ process[w].state = "running"
    /\ mcu_type[w] /= mcu_var
    /\ process[w].config_file = ConfigFile(mcu_type[w], op[w])

\* C9: at most one run_openocd thread is inside the body of its loop.
C9_AtMostOneWorkerInLoop ==
  Cardinality({w \in Workers : pc[w] \in BodyPcs}) <= 1

\* C10: once stop_openocd was called, and start_openocd not again, no step
\* logs "Success", queues the success tones or turns the LED green.  The claim
\* is stated here for the states in which running is still False, so that a
\* violation is an iteration in flight at the Stop and not a Stop that line 99
\* overwrote (C2).
C10_NoSuccessAfterStop ==
  [][(stop_since_start /\ ~running) =>
       ~(SuccessLogged \/ SuccessTonesQueued \/ LedTurnsGreen)]_vars

\* C11: once a successful iteration has set the LED to green, and until
\* start_openocd creates a thread again, every step leaves the LED green and
\* launches no process.
C11_SuccessStable ==
  [][green_since_start => (led' = "green" /\ launches' = launches)]_vars

\* C12: a call of start_openocd in a state where running is True creates no
\* thread, does not clear the output text, and leaves the running flag, the
\* LED, the log and the queue of pending tones unchanged.
C12_StartWhileRunningIsNoOp ==
  [][(start_openocd /\ running) =>
       UNCHANGED <<pc, sel_at_start, output_text, running, led, log, pending_tones>>]_vars

\* start_openocd has been called while running was True: of two user actions
\* one was the Start that created the only thread, and the other changed no
\* menu, logged no Stop, left the window up and created no thread, so it was a
\* Start that found running True
C12_Witness ==
  /\ clicks = 2
  /\ gui = "up"
  /\ ~BagIn(<<"stopping">>, log)
  /\ <<mcu_var, pin_var, mode_var>> = <<MCU_LIST[1], PIN_LIST[1], MODE_LIST[1]>>
  /\ Cardinality({w \in Workers : pc[w] /= "idle"}) = 1
  /\ running

\* C13: tones are played in the order in which they were queued: every step
\* that plays a tone plays the oldest tone of pending_tones and takes that one
\* from the list, so that the tones played are the tones queued, in order and
\* once each.
C13_TonesPlayedInQueueOrder ==
  [][played' /= played =>
       /\ Len(pending_tones) > 0
       /\ played' = Append(played, Head(pending_tones))
       /\ pending_tones' = Tail(pending_tones)]_vars

====
